---- MODULE Spec2Model ----
(***************************************************************************)
(* A model of ValidationEngine (src/src/validation-engine.js): the SHACL   *)
(* traversal validateAll -> validateNodeAgainstShape ->                    *)
(* validateNodeAgainstConstraint -> validator.execute ->                   *)
(* createResultFromObject, with the engine's mutable fields (results,      *)
(* recordErrorsLevel, violationsCount, validationError, configuration) and *)
(* the JavaScript call stack made explicit.                                *)
(***************************************************************************)
EXTENDS Integers, Sequences, FiniteSets, TLC

VARIABLES
  conformanceOnly,    \* this.conformanceOnly
  shapesGraph,        \* this.context.shapesGraph: shape node -> shape
  batch,              \* this.configuration.getValidationErrorBatch()
  results,            \* this.results: the quads of the ValidationResults
  recordErrorsLevel,  \* this.recordErrorsLevel
  violationsCount,    \* this.violationsCount
  validationError,    \* this.validationError
  stack,              \* the call stack, innermost frame last; <<>> when idle
  dataGraph,          \* the rdfDataGraph argument of the running validateAll
  api,                \* what the last call of the public API returned or raised
  run,                \* history: facts about the latest validateAll call
  runs,               \* history: number of validateAll calls so far
  execCount           \* history: number of validator.execute calls so far

vars == <<conformanceOnly, shapesGraph, batch, results, recordErrorsLevel,
          violationsCount, validationError, stack, dataGraph, api, run, runs,
          execCount>>

engine == <<conformanceOnly, shapesGraph, batch, results, recordErrorsLevel,
            violationsCount, validationError>>

-----------------------------------------------------------------------------
(* Bounds of the model.                                                    *)

\* validateAll calls in one behaviour
MaxRuns == 2
\* validator.execute calls in one behaviour
MaxExec == 3
\* calls back into the engine made by one validator.execute
MaxNestedCalls == 1

-----------------------------------------------------------------------------
(* Values.                                                                 *)

None == "none"

\* getValidationErrorBatch(): -1 is "unlimited", otherwise a positive limit
BatchValues == {-1, 1, 2}

PropertyConstraintComponent == "sh:PropertyConstraintComponent"

\* The constraint component registry: for each component, its validator for
\* node shapes and for property shapes ("none": no validator, "generic",
\* "whole": not generic), the message templates of its validator and the
\* sh:message values of its node.
Components ==
  [c \in {PropertyConstraintComponent, "ex:Generic", "ex:Whole", "ex:NodeOnly",
          "ex:NoValidator"} |->
     CASE c = PropertyConstraintComponent ->
            [node |-> None, property |-> None,
             componentMessages |-> <<>>, nodeMessages |-> <<>>]
       [] c = "ex:Generic" ->
            [node |-> "generic", property |-> "generic",
             componentMessages |-> <<"validator message">>, nodeMessages |-> <<>>]
       [] c = "ex:Whole" ->
            [node |-> "whole", property |-> "whole",
             componentMessages |-> <<>>, nodeMessages |-> <<"component message">>]
       [] c = "ex:NodeOnly" ->
            [node |-> "generic", property |-> None,
             componentMessages |-> <<>>, nodeMessages |-> <<>>]
       [] OTHER ->
            [node |-> None, property |-> None,
             componentMessages |-> <<>>, nodeMessages |-> <<>>]]

Constraint(component, paramValue) ==
  [component |-> component, paramValue |-> paramValue]

Shape(target, path, deactivated, messages, constraints) ==
  [target |-> target, path |-> path, deactivated |-> deactivated,
   severity |-> "sh:Violation", messages |-> messages,
   constraints |-> constraints]

\* The order in which the shapes graph enumerates its shapes.
ShapeOrder == <<"A", "B", "C">>

ShapeIds == {ShapeOrder[k] : k \in DOMAIN ShapeOrder}

Unused == Shape(FALSE, None, FALSE, <<>>, <<>>)

Graph(a, b, c) == [s \in ShapeIds |-> CASE s = "A" -> a [] s = "B" -> b [] OTHER -> c]

\* The shapes graphs the engine is constructed with.
ShapesGraphs ==
  { \* no shape declares a target
    Graph(Shape(FALSE, None, FALSE, <<>>, <<Constraint("ex:Generic", None)>>),
          Shape(FALSE, "ex:p", FALSE, <<>>, <<Constraint("ex:Whole", None)>>),
          Unused),
    \* a node shape with a generic and a whole-shape validator, and a
    \* targeted property shape with a generic validator
    Graph(Shape(TRUE, None, FALSE, <<>>,
                <<Constraint("ex:Generic", None), Constraint("ex:Whole", None)>>),
          Shape(TRUE, "ex:p", FALSE, <<"shape message">>,
                <<Constraint("ex:Generic", None)>>),
          Unused),
    \* a node shape with a nested property shape (sh:property), which has a
    \* nested property shape of its own
    Graph(Shape(TRUE, None, FALSE, <<>>,
                <<Constraint(PropertyConstraintComponent, "B"),
                  Constraint("ex:NodeOnly", None)>>),
          Shape(FALSE, "ex:p", FALSE, <<>>,
                <<Constraint("ex:Generic", None),
                  Constraint(PropertyConstraintComponent, "C")>>),
          Shape(FALSE, "ex:q", FALSE, <<>>, <<Constraint("ex:Whole", None)>>)),
    \* the same with the nested property shape deactivated, and a
    \* deactivated targeted shape
    Graph(Shape(TRUE, None, FALSE, <<>>,
                <<Constraint(PropertyConstraintComponent, "B"),
                  Constraint("ex:Generic", "C")>>),
          Shape(FALSE, "ex:p", TRUE, <<>>,
                <<Constraint("ex:Generic", None), Constraint("ex:NoValidator", None)>>),
          Shape(TRUE, None, TRUE, <<>>, <<Constraint("ex:Whole", None)>>)),
    \* a node shape whose validator evaluates another shape (as sh:node,
    \* sh:and, sh:or, sh:not do), the last constraint of which has no
    \* validator, and a property shape without a validator for its kind
    Graph(Shape(TRUE, None, FALSE, <<>>, <<Constraint("ex:Generic", "B")>>),
          Shape(FALSE, None, FALSE, <<>>,
                <<Constraint("ex:Generic", None), Constraint("ex:Whole", None),
                  Constraint("ex:NoValidator", None)>>),
          Shape(TRUE, "ex:p", FALSE, <<>>, <<Constraint("ex:NodeOnly", None)>>)) }

\* The data graphs: the target nodes each targeted shape resolves to, and the
\* value nodes a property shape's path reaches from a focus node.
DataGraphs ==
  { [targets |-> t, values |-> v] :
      t \in {<<>>, <<"n1">>, <<"n1", "n2">>},
      v \in {<<>>, <<"n2">>, <<"n1", "n2">>} }

-----------------------------------------------------------------------------
(* What a validator's execute returns (createResultFromObject, lines 44-49):*)
(* true (no violation), false, a message string, a result object with      *)
(* optional path, value and message, or an array of these.                 *)

Outcome(kind, path, value, message, elements) ==
  [kind |-> kind, path |-> path, value |-> value, message |-> message,
   elements |-> elements]

OTrue == Outcome("true", None, None, None, <<>>)

OFalse == Outcome("false", None, None, None, <<>>)

OString == Outcome("string", None, None, "explicit message", <<>>)

OObject(path, value, message) == Outcome("object", path, value, message, <<>>)

OArray(elements) == Outcome("array", None, None, None, elements)

\* longest array a validator returns
MaxBatchLen == 2

ArrayElements == {OTrue, OFalse}

SeqsUpTo(S, n) == UNION {[1..k -> S] : k \in 0..n}

BasicOutcomes ==
  {OTrue, OFalse, OString, OObject(None, None, None),
   OObject("ex:own", "n2", "detail message")}

Outcomes ==
  BasicOutcomes \cup {OArray(es) : es \in SeqsUpTo(ArrayElements, MaxBatchLen)}

\* Whether the outcome, or an element of it, is one of the three violation forms.
IsViolation(obj) == obj.kind \in {"false", "string", "object"}

-----------------------------------------------------------------------------
(* Shapes and constraints.                                                 *)

\* A constraint is named by its shape and its position among the shape's
\* constraints.
ConstraintOf(shape, cidx) == shapesGraph[shape].constraints[cidx]

ComponentOf(shape, cidx) == ConstraintOf(shape, cidx).component

\* shape.isPropertyShape()
IsPropertyShape(shape) == shapesGraph[shape].path # None

\* shapesGraph.getShapesWithTarget()
RECURSIVE SelectTargets(_, _)
SelectTargets(g, k) ==
  IF k > Len(ShapeOrder) THEN <<>>
  ELSE (IF g[ShapeOrder[k]].target THEN <<ShapeOrder[k]>> ELSE <<>>)
         \o SelectTargets(g, k + 1)

GetShapesWithTarget == SelectTargets(shapesGraph, 1)

\* shape.getTargetNodes(rdfDataGraph)
GetTargetNodes(shape, dg) == dg.targets

\* shape.getValueNodes(focusNode, rdfDataGraph): the focus node itself for a
\* node shape, the nodes the path reaches for a property shape
GetValueNodes(shape, focusNode, dg) ==
  IF IsPropertyShape(shape) THEN dg.values ELSE <<focusNode>>

\* The validator selected for the constraint (lines 212-214): None when the
\* component has no validator for the kind of the constraint's shape.
ValidationFunction(shape, cidx) ==
  IF IsPropertyShape(shape)
  THEN Components[ComponentOf(shape, cidx)].property
  ELSE Components[ComponentOf(shape, cidx)].node

\* lines 216-218
Generic(shape, cidx) == ValidationFunction(shape, cidx) = "generic"

\* A faulty maxErrorsReached, which does not treat -1 as "unlimited".
MaxErrorsReachedNoUnlimited == violationsCount >= batch

\* A faulty maxErrorsReached, which lets one violation more through.
MaxErrorsReachedLate ==
  IF batch = -1 THEN FALSE ELSE violationsCount > batch

\* maxErrorsReached (lines 282-288)

MaxErrorsReached ==
  IF batch = -1 THEN FALSE ELSE violationsCount >= batch

-----------------------------------------------------------------------------
(* The result quads.                                                       *)

Quad(subject, predicate, object) ==
  [subject |-> subject, predicate |-> predicate, object |-> object]

\* addResultProperty
AddResultProperty(res, result, predicate, object) ==
  Append(res, Quad(result, predicate, object))

\* The ValidationResult nodes of a quad list, and the objects one of them has
\* for a predicate.
ResultNodes(res) ==
  {res[k].subject : k \in {q \in DOMAIN res : res[q].predicate = "rdf:type"}}

Objects(res, result, predicate) ==
  [k \in 1..Cardinality({q \in DOMAIN res :
                           res[q].subject = result /\ res[q].predicate = predicate})
     |-> res[CHOOSE q \in DOMAIN res :
               /\ res[q].subject = result /\ res[q].predicate = predicate
               /\ Cardinality({p \in 1..q : res[p].subject = result
                                            /\ res[p].predicate = predicate}) = k].object]

\* TermFactory.blankNode(): a node no earlier result of the list uses
BlankNode(res) == Cardinality(ResultNodes(res)) + 1

\* createResult: the quad list with the new result's default properties
CreateResult(res, shape, cidx, focusNode, valueNode) ==
  LET result == BlankNode(res)
      r1 == AddResultProperty(res, result, "rdf:type", "sh:ValidationResult")
      r2 == AddResultProperty(r1, result, "sh:resultSeverity", shapesGraph[shape].severity)
      r3 == AddResultProperty(r2, result, "sh:sourceConstraintComponent",
                              ComponentOf(shape, cidx))
      r4 == AddResultProperty(r3, result, "sh:sourceShape", shape)
      r5 == AddResultProperty(r4, result, "sh:focusNode", focusNode)
  IN IF valueNode # None
     THEN AddResultProperty(r5, result, "sh:value", valueNode)
     ELSE r5

\* withSubstitutions: the templates of this model carry no {$name} or {?name}
\* placeholder, which substitution leaves as they are.
WithSubstitutions(m, shape, cidx) == m

\* The templates createResultMessages resolves, in its priority order.
MessageTemplates(shape, cidx) ==
  LET ms1 == shapesGraph[shape].messages
      ms2 == IF Len(ms1) = 0
             THEN Components[ComponentOf(shape, cidx)].componentMessages ELSE ms1
  IN IF Len(ms2) = 0 THEN Components[ComponentOf(shape, cidx)].nodeMessages ELSE ms2

RECURSIVE AddMessages(_, _, _, _, _)
AddMessages(res, result, ms, shape, cidx) ==
  IF ms = <<>> THEN res
  ELSE AddMessages(AddResultProperty(res, result, "sh:resultMessage",
                                     WithSubstitutions(Head(ms), shape, cidx)),
                   result, Tail(ms), shape, cidx)

\* createResultMessages
CreateResultMessages(res, result, shape, cidx) ==
  AddMessages(res, result, MessageTemplates(shape, cidx), shape, cidx)

\* A faulty variant, which forgets conformanceOnly at recordErrorsLevel 0.
EarlyReturnIgnoringMode(level) ==
  IF level > 0 THEN (IF conformanceOnly THEN "false" ELSE "true")
  ELSE "materialize"

\* The guards every branch of createResultFromObject starts with (lines 52-62,
\* 70-79, 88-97): "true" and "false" are the value returned without a result
\* being created, "materialize" lets the branch go on to createResult.
EarlyReturn(level) ==
  IF level > 0 THEN (IF conformanceOnly THEN "false" ELSE "true")
  ELSE IF conformanceOnly THEN "false" ELSE "materialize"

Outcome2(res, ret) == [results |-> res, ret |-> ret]

\* A faulty variant, which adds the shape's path to a result that has the
\* outcome's own.
CreateResultFromObjectBothPaths(res, level, obj, shape, cidx, focusNode, valueNode) ==
  LET result == BlankNode(res)
      shapePath(r) ==
        IF IsPropertyShape(shape)
        THEN AddResultProperty(r, result, "sh:resultPath", shapesGraph[shape].path)
        ELSE r
  IN
  IF obj.kind = "false" THEN
    IF EarlyReturn(level) # "materialize"
    THEN Outcome2(res, EarlyReturn(level) = "true")
    ELSE LET r1 == CreateResult(res, shape, cidx, focusNode, valueNode)
             r2 == shapePath(r1)
         IN Outcome2(CreateResultMessages(r2, result, shape, cidx), TRUE)
  ELSE IF obj.kind = "string" THEN
    IF EarlyReturn(level) # "materialize"
    THEN Outcome2(res, EarlyReturn(level) = "true")
    ELSE LET r1 == CreateResult(res, shape, cidx, focusNode, valueNode)
             r2 == shapePath(r1)
             r3 == AddResultProperty(r2, result, "sh:resultMessage", obj.message)
         IN Outcome2(CreateResultMessages(r3, result, shape, cidx), TRUE)
  ELSE IF obj.kind = "object" THEN
    IF EarlyReturn(level) # "materialize"
    THEN Outcome2(res, EarlyReturn(level) = "true")
    ELSE LET r1 == CreateResult(res, shape, cidx, focusNode, None)
             r2 == IF obj.path # None
                   THEN shapePath(AddResultProperty(r1, result, "sh:resultPath",
                                                    obj.path))
                   ELSE shapePath(r1)
             r3 == IF obj.value # None
                   THEN AddResultProperty(r2, result, "sh:value", obj.value)
                   ELSE IF valueNode # None
                   THEN AddResultProperty(r2, result, "sh:value", valueNode)
                   ELSE r2
             r4 == IF obj.message # None
                   THEN AddResultProperty(r3, result, "sh:resultMessage", obj.message)
                   ELSE CreateResultMessages(r3, result, shape, cidx)
         IN Outcome2(r4, TRUE)
  ELSE Outcome2(res, FALSE)

\* createResultFromObject for one outcome that is not an array: the quad list
\* afterwards and the boolean returned.
CreateResultFromObject(res, level, obj, shape, cidx, focusNode, valueNode) ==
  LET result == BlankNode(res)
      shapePath(r) ==
        IF IsPropertyShape(shape)
        THEN AddResultProperty(r, result, "sh:resultPath", shapesGraph[shape].path)
        ELSE r
  IN
  IF obj.kind = "false" THEN
    IF EarlyReturn(level) # "materialize"
    THEN Outcome2(res, EarlyReturn(level) = "true")
    ELSE LET r1 == CreateResult(res, shape, cidx, focusNode, valueNode)
             r2 == shapePath(r1)
         IN Outcome2(CreateResultMessages(r2, result, shape, cidx), TRUE)
  ELSE IF obj.kind = "string" THEN
    IF EarlyReturn(level) # "materialize"
    THEN Outcome2(res, EarlyReturn(level) = "true")
    ELSE LET r1 == CreateResult(res, shape, cidx, focusNode, valueNode)
             r2 == shapePath(r1)
             r3 == AddResultProperty(r2, result, "sh:resultMessage", obj.message)
         IN Outcome2(CreateResultMessages(r3, result, shape, cidx), TRUE)
  ELSE IF obj.kind = "object" THEN
    IF EarlyReturn(level) # "materialize"
    THEN Outcome2(res, EarlyReturn(level) = "true")
    ELSE LET r1 == CreateResult(res, shape, cidx, focusNode, None)
             r2 == IF obj.path # None
                   THEN AddResultProperty(r1, result, "sh:resultPath", obj.path)
                   ELSE shapePath(r1)
             r3 == IF obj.value # None
                   THEN AddResultProperty(r2, result, "sh:value", obj.value)
                   ELSE IF valueNode # None
                   THEN AddResultProperty(r2, result, "sh:value", valueNode)
                   ELSE r2
             r4 == IF obj.message # None
                   THEN AddResultProperty(r3, result, "sh:resultMessage", obj.message)
                   ELSE CreateResultMessages(r3, result, shape, cidx)
         IN Outcome2(r4, TRUE)
  ELSE Outcome2(res, FALSE)

\* A faulty variant of the loop, which leaves it at the first violation.
RECURSIVE CreateResultsFromArrayUntilFirst(_, _, _, _, _, _, _, _)
CreateResultsFromArrayUntilFirst(res, level, es, k, shape, cidx, focusNode, valueNode) ==
  IF k > Len(es) THEN Outcome2(res, FALSE)
  ELSE LET one == CreateResultFromObject(res, level, es[k], shape, cidx,
                                         focusNode, valueNode)
       IN IF one.ret THEN one
          ELSE CreateResultsFromArrayUntilFirst(one.results, level, es, k + 1,
                                                shape, cidx, focusNode, valueNode)

\* The loop over an array outcome (lines 236-240, 262-266), from element k.
RECURSIVE CreateResultsFromArray(_, _, _, _, _, _, _, _)
CreateResultsFromArray(res, level, es, k, shape, cidx, focusNode, valueNode) ==
  IF k > Len(es) THEN Outcome2(res, FALSE)
  ELSE LET one == CreateResultFromObject(res, level, es[k], shape, cidx,
                                         focusNode, valueNode)
           more == CreateResultsFromArray(one.results, level, es, k + 1, shape,
                                          cidx, focusNode, valueNode)
       IN Outcome2(more.results, one.ret \/ more.ret)

\* What follows execute in both branches (lines 235-245, 260-272): the quad
\* list afterwards and whether a createResultFromObject call returned true.
NormalizeOutcome(res, level, obj, shape, cidx, focusNode, valueNode) ==
  IF obj.kind = "array"
  THEN CreateResultsFromArray(res, level, obj.elements, 1, shape, cidx,
                              focusNode, valueNode)
  ELSE CreateResultFromObject(res, level, obj, shape, cidx, focusNode, valueNode)

-----------------------------------------------------------------------------
(* The call stack.  A frame is one activation of validateAll,              *)
(* validateNodeAgainstShape, validateNodeAgainstConstraint or of a         *)
(* validator's execute; i and j are its loop indexes (j of an execute      *)
(* frame counts its calls back into the engine) and rets records what its  *)
(* callees returned to it.                                                  *)

Frame(kind, pc, shape, cidx, focusNode, valueNodes, valueNode) ==
  [kind |-> kind, pc |-> pc, shape |-> shape, cidx |-> cidx,
   focusNode |-> focusNode, valueNodes |-> valueNodes, valueNode |-> valueNode,
   i |-> 1, j |-> 1, errorFound |-> FALSE, rets |-> <<>>]

Top == stack[Len(stack)]

Pop(stk) == SubSeq(stk, 1, Len(stk) - 1)

Push(stk, f) == Append(stk, f)

ReplaceTop(stk, f) == [stk EXCEPT ![Len(stk)] = f]

\* The callee on top of stk returns value to its caller: the caller's
\* `if (call) { errorFound = true }` and its loop increment (lines 164-166,
\* 191-193, 206-208); a validator that called the engine just goes on.
Return(stk, value) ==
  LET caller == stk[Len(stk) - 1]
      after ==
        CASE caller.kind = "validateAll" ->
               [caller EXCEPT !.errorFound = @ \/ value, !.j = @ + 1,
                              !.rets = Append(@, value)]
          [] caller.kind = "execute" ->
               [caller EXCEPT !.j = @ + 1, !.rets = Append(@, value)]
          [] OTHER ->
               [caller EXCEPT !.errorFound = @ \/ value, !.i = @ + 1,
                              !.rets = Append(@, value)]
  IN ReplaceTop(Pop(stk), after)

-----------------------------------------------------------------------------
(* The public API's observable outcome, and errors.                        *)

\* An Error object: the text of its message, the constraint component the
\* message names and the run that raised it (two raises are two objects).
Error(name, component, id) == [name |-> name, component |-> component, run |-> id]

\* null
Null == Error(None, None, 0)

Api(op, status, value, error, report) ==
  [op |-> op, status |-> status, value |-> value, error |-> error,
   report |-> report]

\* History of the latest validateAll call: its number, whether it returned at
\* line 152, the limit configured when it was entered, the failure its catch
\* clause caught, and whether an outcome with a violation was normalized at
\* recordErrorsLevel 0 (the condition of lines 52, 70, 88 for a result).
Run(id, skipped, limit, fatal, wouldRecord) ==
  [id |-> id, skipped |-> skipped, limit |-> limit, fatal |-> fatal,
   wouldRecord |-> wouldRecord]

Idle == stack = <<>>

-----------------------------------------------------------------------------
(* Construction (lines 10-18).  The configuration and the context are the  *)
(* caller's.                                                               *)

Init ==
  /\ conformanceOnly \in BOOLEAN
  /\ shapesGraph \in ShapesGraphs
  /\ batch \in BatchValues
  /\ results = <<>>
  /\ recordErrorsLevel = 0
  /\ violationsCount = 0
  /\ validationError = Null
  /\ stack = <<>>
  /\ dataGraph = [targets |-> <<>>, values |-> <<>>]
  /\ api = Api(None, "returned", FALSE, Null, <<>>)
  /\ run = Run(0, FALSE, batch, Null, FALSE)
  /\ runs = 0
  /\ execCount = 0

-----------------------------------------------------------------------------
(* validateAll (lines 150-175).                                            *)

\* A faulty catch clause, which returns true but does not store the failure.
CatchSwallowing(e) ==
  /\ stack' = <<>>
  /\ validationError' = validationError
  /\ api' = Api("validateAll", "returned", TRUE, Null, <<>>)
  /\ run' = [run EXCEPT !.fatal = e]
  /\ UNCHANGED <<conformanceOnly, shapesGraph, batch, results, recordErrorsLevel,
                 violationsCount, dataGraph, runs, execCount>>

\* The catch clause of validateAll (lines 170-173), reached from whatever
\* frame raised e: the stack unwinds through frames that have no handler.
Catch(e) ==
  /\ stack' = <<>>
  /\ validationError' = e
  /\ api' = Api("validateAll", "returned", TRUE, Null, <<>>)
  /\ run' = [run EXCEPT !.fatal = e]
  /\ UNCHANGED <<conformanceOnly, shapesGraph, batch, results, recordErrorsLevel,
                 violationsCount, dataGraph, runs, execCount>>

\* A faulty variant, which empties the result list and forgets the stored
\* failure before it looks at the limit.
ValidateAllResettingFirst(dg) ==
  /\ Idle
  /\ runs < MaxRuns
  /\ runs' = runs + 1
  /\ validationError' = Null
  /\ results' = <<>>
  /\ IF MaxErrorsReached
     THEN /\ api' = Api("validateAll", "returned", TRUE, Null, <<>>)
          /\ run' = Run(runs + 1, TRUE, batch, Null, FALSE)
          /\ UNCHANGED <<stack, dataGraph>>
     ELSE /\ dataGraph' = dg
          /\ stack' = <<Frame("validateAll", "loop", None, 0, None, <<>>, None)>>
          /\ api' = Api("validateAll", "running", FALSE, Null, <<>>)
          /\ run' = Run(runs + 1, FALSE, batch, Null, FALSE)
  /\ UNCHANGED <<conformanceOnly, shapesGraph, batch, recordErrorsLevel,
                 violationsCount, execCount>>

\* The call: lines 151-158.
ValidateAll(dg) ==
  /\ Idle
  /\ runs < MaxRuns
  /\ runs' = runs + 1
  /\ IF MaxErrorsReached
     THEN /\ api' = Api("validateAll", "returned", TRUE, Null, <<>>)
          /\ run' = Run(runs + 1, TRUE, batch, Null, FALSE)
          /\ UNCHANGED <<results, validationError, stack, dataGraph>>
     ELSE /\ validationError' = Null
          /\ results' = <<>>
          /\ dataGraph' = dg
          /\ stack' = <<Frame("validateAll", "loop", None, 0, None, <<>>, None)>>
          /\ api' = Api("validateAll", "running", FALSE, Null, <<>>)
          /\ run' = Run(runs + 1, FALSE, batch, Null, FALSE)
  /\ UNCHANGED <<conformanceOnly, shapesGraph, batch, recordErrorsLevel,
                 violationsCount, execCount>>

\* The two loops (lines 159-169): i runs over the shapes with a target, j over
\* the current shape's target nodes.
ValidateAllLoop ==
  /\ ~Idle
  /\ Top.kind = "validateAll"
  /\ LET shapes == GetShapesWithTarget IN
     IF Top.i > Len(shapes)
     THEN /\ stack' = <<>>
          /\ api' = Api("validateAll", "returned", Top.errorFound, Null, <<>>)
     ELSE /\ api' = api
          /\ IF Top.j > Len(GetTargetNodes(shapes[Top.i], dataGraph))
             THEN stack' = ReplaceTop(stack, [Top EXCEPT !.i = @ + 1, !.j = 1])
             ELSE stack' = Push(stack,
                     Frame("shape", "entry", shapes[Top.i], 0,
                           GetTargetNodes(shapes[Top.i], dataGraph)[Top.j],
                           <<>>, None))
  /\ UNCHANGED <<engine, dataGraph, run, runs, execCount>>

-----------------------------------------------------------------------------
(* validateNodeAgainstShape (lines 180-197).                               *)

\* A faulty variant, which evaluates deactivated shapes too.
ValidateNodeAgainstShapeIgnoringDeactivated ==
  /\ ~Idle
  /\ Top.kind = "shape"
  /\ Top.pc = "entry"
  /\ IF MaxErrorsReached
     THEN stack' = Return(stack, TRUE)
     ELSE stack' = ReplaceTop(stack,
            [Top EXCEPT !.pc = "loop",
                        !.valueNodes = GetValueNodes(Top.shape, Top.focusNode,
                                                     dataGraph)])
  /\ UNCHANGED <<engine, dataGraph, api, run, runs, execCount>>

\* Entry (lines 181-188).
ValidateNodeAgainstShape ==
  /\ ~Idle
  /\ Top.kind = "shape"
  /\ Top.pc = "entry"
  /\ IF MaxErrorsReached
     THEN stack' = Return(stack, TRUE)
     ELSE IF shapesGraph[Top.shape].deactivated
     THEN stack' = Return(stack, FALSE)
     ELSE stack' = ReplaceTop(stack,
            [Top EXCEPT !.pc = "loop",
                        !.valueNodes = GetValueNodes(Top.shape, Top.focusNode,
                                                     dataGraph)])
  /\ UNCHANGED <<engine, dataGraph, api, run, runs, execCount>>

\* The loop over the shape's constraints (lines 190-195).
ShapeLoop ==
  /\ ~Idle
  /\ Top.kind = "shape"
  /\ Top.pc = "loop"
  /\ IF Top.i > Len(shapesGraph[Top.shape].constraints)
     THEN stack' = Return(stack, Top.errorFound)
     ELSE stack' = Push(stack,
            Frame("constraint", "entry", Top.shape, Top.i, Top.focusNode,
                  Top.valueNodes, None))
  /\ UNCHANGED <<engine, dataGraph, api, run, runs, execCount>>

-----------------------------------------------------------------------------
(* validateNodeAgainstConstraint (lines 199-280).                          *)

CannotFindValidator == "Cannot find validator for constraint component"

\* A faulty variant, which skips a constraint without validator.
ValidateNodeAgainstConstraintSkippingMissing ==
  /\ ~Idle
  /\ Top.kind = "constraint"
  /\ Top.pc = "entry"
  /\ IF MaxErrorsReached
     THEN stack' = Return(stack, TRUE)
     ELSE IF ComponentOf(Top.shape, Top.cidx) = PropertyConstraintComponent
     THEN stack' = ReplaceTop(stack, [Top EXCEPT !.pc = "property"])
     ELSE IF ValidationFunction(Top.shape, Top.cidx) = None
     THEN stack' = Return(stack, FALSE)
     ELSE IF Generic(Top.shape, Top.cidx)
     THEN stack' = ReplaceTop(stack, [Top EXCEPT !.pc = "generic"])
     ELSE stack' = ReplaceTop(stack, [Top EXCEPT !.pc = "whole"])
  /\ UNCHANGED <<engine, dataGraph, api, run, runs, execCount>>

\* Entry and dispatch (lines 200-219, 274-276).
ValidateNodeAgainstConstraint ==
  /\ ~Idle
  /\ Top.kind = "constraint"
  /\ Top.pc = "entry"
  /\ IF MaxErrorsReached
     THEN /\ stack' = Return(stack, TRUE)
          /\ UNCHANGED <<validationError, api, run>>
     ELSE IF ComponentOf(Top.shape, Top.cidx) = PropertyConstraintComponent
     THEN /\ stack' = ReplaceTop(stack, [Top EXCEPT !.pc = "property"])
          /\ UNCHANGED <<validationError, api, run>>
     ELSE IF ValidationFunction(Top.shape, Top.cidx) = None
     THEN Catch(Error(CannotFindValidator, ComponentOf(Top.shape, Top.cidx), run.id))
     ELSE IF Generic(Top.shape, Top.cidx)
     THEN /\ stack' = ReplaceTop(stack, [Top EXCEPT !.pc = "generic"])
          /\ UNCHANGED <<validationError, api, run>>
     ELSE /\ stack' = ReplaceTop(stack, [Top EXCEPT !.pc = "whole"])
          /\ UNCHANGED <<validationError, api, run>>
  /\ UNCHANGED <<conformanceOnly, shapesGraph, batch, results, recordErrorsLevel,
                 violationsCount, dataGraph, runs, execCount>>

\* A faulty variant, which passes its own focus node to the nested shape.
PropertyLoopOuterFocus ==
  /\ ~Idle
  /\ Top.kind = "constraint"
  /\ Top.pc = "property"
  /\ IF Top.i > Len(Top.valueNodes)
     THEN stack' = Return(stack, Top.errorFound)
     ELSE stack' = Push(stack,
            Frame("shape", "entry", ConstraintOf(Top.shape, Top.cidx).paramValue,
                  0, Top.focusNode, <<>>, None))
  /\ UNCHANGED <<engine, dataGraph, api, run, runs, execCount>>

\* The property-constraint branch (lines 204-210): the nested shape, once per
\* value node.
PropertyLoop ==
  /\ ~Idle
  /\ Top.kind = "constraint"
  /\ Top.pc = "property"
  /\ IF Top.i > Len(Top.valueNodes)
     THEN stack' = Return(stack, Top.errorFound)
     ELSE stack' = Push(stack,
            Frame("shape", "entry", ConstraintOf(Top.shape, Top.cidx).paramValue,
                  0, Top.valueNodes[Top.i], <<>>, None))
  /\ UNCHANGED <<engine, dataGraph, api, run, runs, execCount>>

\* The generic branch up to the call of execute (lines 221-231).
GenericLoop ==
  /\ ~Idle
  /\ Top.kind = "constraint"
  /\ Top.pc = "generic"
  /\ IF Top.i > Len(Top.valueNodes) \/ MaxErrorsReached
     THEN /\ stack' = Return(stack, Top.errorFound)
          /\ UNCHANGED <<recordErrorsLevel, execCount>>
     ELSE /\ execCount < MaxExec
          /\ recordErrorsLevel' = recordErrorsLevel + 1
          /\ execCount' = execCount + 1
          /\ stack' = Push(stack,
               Frame("execute", "running", Top.shape, Top.cidx, Top.focusNode,
                     Top.valueNodes, Top.valueNodes[Top.i]))
  /\ UNCHANGED <<conformanceOnly, shapesGraph, batch, results, violationsCount,
                 validationError, dataGraph, api, run, runs>>

\* The branch of a validator that is not generic, up to the call of execute
\* (lines 254-256).
WholeShapeCall ==
  /\ ~Idle
  /\ Top.kind = "constraint"
  /\ Top.pc = "whole"
  /\ execCount < MaxExec
  /\ recordErrorsLevel' = recordErrorsLevel + 1
  /\ execCount' = execCount + 1
  /\ stack' = Push(stack,
       Frame("execute", "running", Top.shape, Top.cidx, Top.focusNode,
             Top.valueNodes, None))
  /\ UNCHANGED <<conformanceOnly, shapesGraph, batch, results, violationsCount,
                 validationError, dataGraph, api, run, runs>>

-----------------------------------------------------------------------------
(* The validator's execute: code outside the engine, which returns an      *)
(* outcome, raises, or first evaluates the shape its constraint names by   *)
(* calling validateNodeAgainstShape (as sh:node, sh:and, sh:or, sh:not do). *)

ValidatorFailure == "validator failure"

ExecuteCallsEngine ==
  /\ ~Idle
  /\ Top.kind = "execute"
  /\ ConstraintOf(Top.shape, Top.cidx).paramValue # None
  /\ Top.j <= MaxNestedCalls
  /\ stack' = Push(stack,
       Frame("shape", "entry", ConstraintOf(Top.shape, Top.cidx).paramValue, 0,
             IF Top.valueNode # None THEN Top.valueNode ELSE Top.focusNode,
             <<>>, None))
  /\ UNCHANGED <<engine, dataGraph, api, run, runs, execCount>>

ExecuteThrows ==
  /\ ~Idle
  /\ Top.kind = "execute"
  /\ Catch(Error(ValidatorFailure, ComponentOf(Top.shape, Top.cidx), run.id))

\* A faulty variant, which counts the results created instead of the value
\* nodes that violate.
GenericReturnCountingResults(obj) ==
  LET c == stack[Len(stack) - 1]
      level == recordErrorsLevel - 1
      out == NormalizeOutcome(results, level, obj, c.shape, c.cidx, c.focusNode,
                              Top.valueNode)
      iterationError == out.ret
  IN /\ recordErrorsLevel' = level
     /\ results' = out.results
     /\ violationsCount' = violationsCount
                           + Cardinality(ResultNodes(out.results))
                           - Cardinality(ResultNodes(results))
     /\ stack' = ReplaceTop(Pop(stack),
                   [c EXCEPT !.errorFound = @ \/ iterationError, !.i = @ + 1,
                             !.rets = Append(@, iterationError)])

\* execute returns obj to the generic branch: lines 233-250 for this value
\* node.
GenericReturn(obj) ==
  LET c == stack[Len(stack) - 1]
      level == recordErrorsLevel - 1
      out == NormalizeOutcome(results, level, obj, c.shape, c.cidx, c.focusNode,
                              Top.valueNode)
      iterationError == out.ret
  IN /\ recordErrorsLevel' = level
     /\ results' = out.results
     /\ violationsCount' = IF iterationError THEN violationsCount + 1
                           ELSE violationsCount
     /\ stack' = ReplaceTop(Pop(stack),
                   [c EXCEPT !.errorFound = @ \/ iterationError, !.i = @ + 1,
                             !.rets = Append(@, iterationError)])

\* execute returns obj to the other branch: lines 258-272 and 278, which
\* return from validateNodeAgainstConstraint.
WholeShapeReturn(obj) ==
  LET c == stack[Len(stack) - 1]
      level == recordErrorsLevel - 1
      out == NormalizeOutcome(results, level, obj, c.shape, c.cidx, c.focusNode,
                              None)
  IN /\ recordErrorsLevel' = level
     /\ results' = out.results
     /\ violationsCount' = violationsCount
     /\ stack' = Return(Pop(stack), out.ret)

ExecuteReturns ==
  /\ ~Idle
  /\ Top.kind = "execute"
  /\ \E obj \in Outcomes :
       /\ IF stack[Len(stack) - 1].pc = "generic"
          THEN GenericReturn(obj)
          ELSE WholeShapeReturn(obj)
       /\ run' = [run EXCEPT !.wouldRecord =
                    @ \/ (recordErrorsLevel - 1 = 0
                          /\ \/ IsViolation(obj)
                             \/ \E k \in DOMAIN obj.elements :
                                  IsViolation(obj.elements[k]))]
  /\ UNCHANGED <<conformanceOnly, shapesGraph, batch, validationError, dataGraph,
                 api, runs, execCount>>

-----------------------------------------------------------------------------
(* getReport (lines 309-316) and setConfiguration (lines 305-307).         *)

\* new ValidationReport(this.results)
ValidationReport(res) == res

\* A faulty variant, which forgets the failure once it has raised it.
GetReportOnce ==
  /\ Idle
  /\ IF validationError # Null
     THEN api' = Api("getReport", "raised", FALSE, validationError, <<>>)
     ELSE api' = Api("getReport", "returned", FALSE, Null,
                     ValidationReport(results))
  /\ validationError' = Null
  /\ UNCHANGED <<conformanceOnly, shapesGraph, batch, results, recordErrorsLevel,
                 violationsCount, stack, dataGraph, run, runs, execCount>>

GetReport ==
  /\ Idle
  /\ IF validationError # Null
     THEN api' = Api("getReport", "raised", FALSE, validationError, <<>>)
     ELSE api' = Api("getReport", "returned", FALSE, Null,
                     ValidationReport(results))
  /\ UNCHANGED <<engine, stack, dataGraph, run, runs, execCount>>

SetConfiguration(b) ==
  /\ Idle
  /\ batch' = b
  /\ api' = Api("setConfiguration", "returned", FALSE, Null, <<>>)
  /\ UNCHANGED <<conformanceOnly, shapesGraph, results, recordErrorsLevel,
                 violationsCount, validationError, stack, dataGraph, run, runs,
                 execCount>>

-----------------------------------------------------------------------------

Next ==
  \/ \E dg \in DataGraphs : ValidateAll(dg)
  \/ ValidateAllLoop
  \/ ValidateNodeAgainstShape
  \/ ShapeLoop
  \/ ValidateNodeAgainstConstraint
  \/ PropertyLoop
  \/ GenericLoop
  \/ WholeShapeCall
  \/ ExecuteCallsEngine
  \/ ExecuteThrows
  \/ ExecuteReturns
  \/ GetReport
  \/ \E b \in BatchValues : SetConfiguration(b)

Spec == Init /\ [][Next]_vars

\* The engine of a caller that never calls setConfiguration.
NextFixedConfiguration ==
  \/ \E dg \in DataGraphs : ValidateAll(dg)
  \/ ValidateAllLoop
  \/ ValidateNodeAgainstShape
  \/ ShapeLoop
  \/ ValidateNodeAgainstConstraint
  \/ PropertyLoop
  \/ GenericLoop
  \/ WholeShapeCall
  \/ ExecuteCallsEngine
  \/ ExecuteThrows
  \/ ExecuteReturns
  \/ GetReport

SpecFixedConfiguration == Init /\ [][NextFixedConfiguration]_vars

-----------------------------------------------------------------------------
(* Properties.                                                             *)

Frames == {stack[k] : k \in DOMAIN stack}

\* Number of ValidationResult nodes in the result list
ResultCount == Cardinality(ResultNodes(results))

RECURSIVE Or(_)
Or(bs) == IF bs = <<>> THEN FALSE ELSE Head(bs) \/ Or(Tail(bs))

\* C1: validateAll never raises to its caller.  When a failure is raised in a
\* run (a missing validator or a validator's execute raising), the run is over
\* at once (no frame is left to execute anything), the failure is the stored
\* validationError, and the call returned true.
C1_FailureIsSwallowedAndStored ==
  /\ api.op = "validateAll" => api.status # "raised"
  /\ run.fatal # Null =>
       /\ Idle
       /\ validationError = run.fatal
       /\ api.op = "validateAll" => api.status = "returned" /\ api.value = TRUE

\* A run that a validator's failure ended while both loops of validateAll had
\* work left.
C1_Witness ==
  /\ run.fatal # Null
  /\ run.fatal.name = ValidatorFailure
  /\ api.op = "validateAll"
  /\ api.value = TRUE
  /\ Len(GetShapesWithTarget) > 1
  /\ Len(dataGraph.targets) > 1

\* C2 as stated: after getReport, the call raised the failure of the latest
\* validateAll run if that run stored one, and returned the report of the
\* accumulated results if that run stored none.
C2_Original ==
  api.op = "getReport" =>
    IF run.fatal # Null
    THEN api.status = "raised" /\ api.error = run.fatal
    ELSE api.status = "returned" /\ api.report = ValidationReport(results)

\* C2, amended: getReport raises the stored failure whenever one is stored and
\* returns the report of the accumulated results otherwise, without changing
\* the engine, so that every later getReport does the same.  After a run that
\* ended in a failure the stored failure is that run's; a stored failure is
\* the latest run's unless that run returned on entry because the batch limit
\* was already reached, which leaves an earlier run's failure stored.
C2_StoredFailureSurfaces ==
  /\ [](/\ api.op = "getReport" =>
             IF validationError # Null
             THEN api.status = "raised" /\ api.error = validationError
             ELSE api.status = "returned"
                  /\ api.report = ValidationReport(results)
        /\ run.fatal # Null => validationError = run.fatal
        /\ (Idle /\ ~run.skipped) => validationError = run.fatal
        /\ validationError # Null => validationError.run \in 1..run.id)
  /\ [][api'.op = "getReport" => UNCHANGED engine]_vars

\* getReport raised the failure of a run a second time.
C2_Witness ==
  /\ api.op = "getReport"
  /\ api.status = "raised"
  /\ api.error = run.fatal
  /\ run.fatal # Null

\* getReport raised a failure that an earlier run than the latest stored.
C2_WitnessStale ==
  /\ api.op = "getReport"
  /\ api.status = "raised"
  /\ run.skipped
  /\ api.error.run < run.id

\* C3: in a validateAll run entered with a batch limit N, the number of
\* ValidationResults created (createResult calls, all of which the run's
\* result list holds) never exceeds N.
C3_ResultsWithinBatch ==
  (run.id > 0 /\ ~run.skipped /\ run.limit # -1) => ResultCount <= run.limit

\* The states in which a call has just passed its entry check: validateAll,
\* validateNodeAgainstShape or validateNodeAgainstConstraint about to do its
\* first piece of work, or a validator's execute that has just been called.
JustEntered ==
  /\ ~Idle
  /\ Top.rets = <<>>
  /\ Top.i = 1
  /\ Top.j = 1
  /\ Top.pc \in {"loop", "property", "generic", "whole", "running"}

\* C4: with a batch limit N, every execute call is issued, and every
\* validateNodeAgainstShape and validateNodeAgainstConstraint call goes past
\* its entry, in a state where violationsCount < N; and from a state in which
\* the counter has reached N no step calls execute.
C4_NoExecuteOnceLimitReached ==
  /\ []((JustEntered /\ batch # -1) => violationsCount < batch)
  /\ []((~Idle /\ Top.kind = "execute" /\ Top.rets = <<>> /\ batch # -1)
          => violationsCount < batch)
  /\ [][MaxErrorsReached => execCount' = execCount]_vars

\* The limit was reached while the generic loop still had a value node to
\* evaluate.
C4_Witness ==
  /\ ~Idle
  /\ MaxErrorsReached
  /\ Top.kind = "constraint"
  /\ Top.pc = "generic"
  /\ Top.i > 1
  /\ Top.i <= Len(Top.valueNodes)

\* C5: a conformance-only validateAll returns true exactly when the same
\* traversal in the other mode would have produced a ValidationResult.  In a
\* first run without limit and without failure the traversal is the same in
\* both modes, and the other mode produces a result exactly when an outcome
\* with a violation is normalized at recordErrorsLevel 0.
C5_ConformanceOnlyMatches ==
  (/\ conformanceOnly
   /\ Idle
   /\ api.op = "validateAll"
   /\ run.id = 1
   /\ run.limit = -1
   /\ run.fatal = Null)
  => (api.value = run.wouldRecord)

\* C6: in conformance-only mode the result list is empty in every state and a
\* report getReport returns has no results.
C6_ConformanceOnlyNoResults ==
  conformanceOnly =>
    /\ results = <<>>
    /\ (api.op = "getReport" /\ api.status = "returned") => api.report = <<>>

\* A conformance-only run normalized an outcome with a violation at
\* recordErrorsLevel 0, and getReport returned its report.
C6_Witness ==
  /\ conformanceOnly
  /\ run.wouldRecord
  /\ api.op = "getReport"
  /\ api.status = "returned"

\* The source shapes of the results in the result list
SourceShapes ==
  {results[k].object : k \in {q \in DOMAIN results :
                                 results[q].predicate = "sh:sourceShape"}}

\* C7: a deactivated shape never gets past the entry of
\* validateNodeAgainstShape: none of its constraints is dispatched, none of
\* its validators is executing, no result has it as source shape, and the
\* violation counter changes only when the execute of a constraint of a shape
\* that is not deactivated returns.
C7_DeactivatedShapeContributesNothing ==
  /\ [](/\ \A f \in Frames :
             (f.kind \in {"constraint", "execute"}
              \/ (f.kind = "shape" /\ f.pc = "loop"))
             => ~shapesGraph[f.shape].deactivated
        /\ \A sh \in SourceShapes : ~shapesGraph[sh].deactivated)
  /\ [][violationsCount' # violationsCount
          => /\ Top.kind = "execute"
             /\ ~shapesGraph[Top.shape].deactivated
             /\ \A f \in Frames :
                  f.kind = "shape" => ~shapesGraph[f.shape].deactivated]_vars

\* A deactivated targeted shape is being evaluated, below the limit, after
\* the evaluation of a shape whose nested property shape is deactivated.
C7_Witness ==
  /\ ~Idle
  /\ Top.kind = "shape"
  /\ Top.pc = "entry"
  /\ shapesGraph[Top.shape].deactivated
  /\ shapesGraph[Top.shape].target
  /\ ~MaxErrorsReached
  /\ Len(stack) = 2
  /\ stack[1].rets # <<>>
  /\ \E sh \in ShapeIds : \E k \in DOMAIN shapesGraph[sh].constraints :
       /\ shapesGraph[sh].target /\ ~shapesGraph[sh].deactivated
       /\ shapesGraph[sh].constraints[k].component = PropertyConstraintComponent
       /\ shapesGraph[shapesGraph[sh].constraints[k].paramValue].deactivated

\* C8: when no shape declares a target, every validateAll returns false and
\* every getReport returns a report without results.
C8_NoTargetsConforms ==
  GetShapesWithTarget = <<>> =>
    /\ (api.op = "validateAll" /\ api.status = "returned") => api.value = FALSE
    /\ api.op = "getReport" => api.status = "returned" /\ api.report = <<>>
    /\ results = <<>>

\* getReport after the second validateAll of an engine without targets.
C8_Witness ==
  /\ GetShapesWithTarget = <<>>
  /\ runs = 2
  /\ api.op = "getReport"
  /\ api.status = "returned"

\* The constraint has a component other than the property-constraint
\* component, without a validator for the kind of its shape.
MissingValidator(shape, cidx) ==
  /\ ComponentOf(shape, cidx) # PropertyConstraintComponent
  /\ ValidationFunction(shape, cidx) = None

\* C9: when validateNodeAgainstConstraint is entered below the batch limit for
\* a constraint without validator, whatever the number of value nodes, its
\* step ends the run with the "Cannot find validator" error of that component
\* stored and validateAll returning true; and no constraint without validator
\* ever returned "no violation" to its shape.
C9_MissingValidatorIsFatal ==
  /\ [][(/\ ~Idle
         /\ Top.kind = "constraint"
         /\ Top.pc = "entry"
         /\ ~MaxErrorsReached
         /\ MissingValidator(Top.shape, Top.cidx))
        => (/\ stack' = <<>>
            /\ validationError' =
                 Error(CannotFindValidator, ComponentOf(Top.shape, Top.cidx), run.id)
            /\ run'.fatal = validationError'
            /\ api'.op = "validateAll" /\ api'.status = "returned"
            /\ api'.value = TRUE)]_vars
  /\ [](\A f \in Frames :
          f.kind = "shape" =>
            \A k \in DOMAIN f.rets :
              MissingValidator(f.shape, k) => f.rets[k] = TRUE)
  /\ [](\A f \in Frames :
          (f.kind = "constraint" /\ f.pc # "entry")
            => ~MissingValidator(f.shape, f.cidx))

\* A run ended with the error of a property shape's constraint without
\* validator, the shape having no value node.
C9_Witness ==
  /\ Idle
  /\ validationError.name = CannotFindValidator
  /\ validationError = run.fatal
  /\ api.op = "validateAll"
  /\ api.value = TRUE
  /\ dataGraph.values = <<>>
  /\ \A sh \in ShapeIds : \A k \in DOMAIN shapesGraph[sh].constraints :
       (/\ ComponentOf(sh, k) = validationError.component
        /\ ~shapesGraph[sh].deactivated /\ MissingValidator(sh, k))
         => IsPropertyShape(sh)

\* The quads a step added to the result list.
NewQuads == SubSeq(results', Len(results) + 1, Len(results'))

\* C10: a property-constraint frame calls validateNodeAgainstShape once per
\* value node, in order, for the shape its parameter names and with the value
\* node as focus node; its steps add nothing to the result list; every result
\* created by a constraint of the nested shape has the nested shape as source
\* shape and that value node as focus node, and none has the
\* property-constraint component as source; and the frame returns, after the
\* last value node, the disjunction of what the nested calls returned.
C10_PropertyConstraintDelegates ==
  /\ [](\A k \in DOMAIN stack :
          (stack[k].kind = "constraint" /\ stack[k].pc = "property") =>
            /\ Len(stack[k].rets) = stack[k].i - 1
            /\ stack[k].i <= Len(stack[k].valueNodes) + 1
            /\ stack[k].errorFound = Or(stack[k].rets)
            /\ k < Len(stack) =>
                 /\ stack[k + 1].kind = "shape"
                 /\ stack[k + 1].shape =
                      ConstraintOf(stack[k].shape, stack[k].cidx).paramValue
                 /\ stack[k + 1].focusNode = stack[k].valueNodes[stack[k].i])
  /\ [](\A q \in DOMAIN results :
          results[q].predicate = "sh:sourceConstraintComponent"
            => results[q].object # PropertyConstraintComponent)
  /\ [][(~Idle /\ Top.kind = "constraint" /\ Top.pc = "property") =>
          /\ results' = results
          /\ Len(stack') < Len(stack) =>
               /\ Len(Top.rets) = Len(Top.valueNodes)
               /\ stack'[Len(stack')].rets[Len(stack'[Len(stack')].rets)]
                    = Or(Top.rets)]_vars
  /\ [][(/\ results' # results
         /\ Len(stack) >= 4
         /\ stack[Len(stack) - 3].kind = "constraint"
         /\ stack[Len(stack) - 3].pc = "property")
        => LET p == stack[Len(stack) - 3]
               nested == ConstraintOf(p.shape, p.cidx).paramValue
           IN /\ nested # p.shape
              /\ \A q \in DOMAIN NewQuads :
                   /\ NewQuads[q].predicate = "sh:sourceShape"
                        => NewQuads[q].object = nested
                   /\ NewQuads[q].predicate = "sh:focusNode"
                        => NewQuads[q].object = p.valueNodes[p.i]]_vars

\* A run in which the nested property shape of a property shape produced a
\* result for the second value node, a node other than the focus node of the
\* outermost shape.
C10_Witness ==
  /\ ~Idle
  /\ Len(stack) >= 5
  /\ stack[5].kind = "constraint"
  /\ stack[5].pc = "property"
  /\ stack[5].i = 2
  /\ stack[5].errorFound
  /\ stack[2].focusNode # stack[5].valueNodes[1]
  /\ \E q \in DOMAIN results :
       /\ results[q].predicate = "sh:sourceShape"
       /\ results[q].object = ConstraintOf(stack[5].shape, stack[5].cidx).paramValue

\* C11: in the mode that is not conformance-only, when validateAll has
\* returned from a run that stored no failure, the boolean it returned is true
\* exactly when the report getReport returns (the result list, no failure
\* being stored) holds at least one ValidationResult.
C11_TrueIffResultRecorded ==
  (/\ Idle
   /\ api.op = "validateAll"
   /\ ~conformanceOnly
   /\ run.fatal = Null
   /\ validationError = Null)
  => (api.value <=> ResultCount > 0)

\* C12: when validateAll has been entered with the limit not reached and has
\* not yet traversed any shape, the result list is empty and the violation
\* counter is zero.
C12_EntryResetsResultsAndCounter ==
  (/\ Len(stack) = 1
   /\ Top.kind = "validateAll"
   /\ Top.i = 1
   /\ Top.j = 1)
  => (results = <<>> /\ violationsCount = 0)

\* C13: a validateAll call made with the limit already reached returns true
\* in that one step, calling nothing (no frame is pushed, no validator
\* executed), and leaves the result list, the violation counter, the
\* suppression depth and the stored failure as they were.
C13_EarlyReturnChangesNothing ==
  [][(Idle /\ MaxErrorsReached /\ runs' # runs) =>
       /\ stack' = <<>>
       /\ api'.op = "validateAll"
       /\ api'.status = "returned"
       /\ api'.value = TRUE
       /\ execCount' = execCount
       /\ UNCHANGED <<results, violationsCount, recordErrorsLevel,
                      validationError>>]_vars

\* validateAll returned on entry on an engine that held a result, a stored
\* failure and a suppression depth above 0.
C13_Witness ==
  /\ Idle
  /\ api.op = "validateAll"
  /\ run.skipped
  /\ ResultCount > 0
  /\ validationError # Null
  /\ recordErrorsLevel > 0

\* C14: a step that increments violationsCount does so at recordErrorsLevel 0
\* (the level once the validator has returned, at which the outcome is
\* normalized and line 247 is reached), and a step that normalizes at a level
\* above 0 adds nothing to the result list.
C14_CounterOnlyAtDepthZero ==
  [][/\ violationsCount' > violationsCount => recordErrorsLevel' = 0
     /\ recordErrorsLevel' > 0 => Len(results') <= Len(results)]_vars

\* C15: recordErrorsLevel is never negative, and it is 0 whenever no
\* validateAll call is in progress: where validateAll is entered and where it
\* has returned, whichever way the run ended.
C15_SuppressionDepthBalanced ==
  /\ recordErrorsLevel >= 0
  /\ Idle => recordErrorsLevel = 0

\* The booleans as the counter adds them.
ToInt(b) == IF b THEN 1 ELSE 0

\* C16: in the generic branch the validator is executed once per value node
\* evaluated, in order (the frame has one return per value node passed, and an
\* execute frame above it is for the current value node; each call is one
\* execute); when execute returns, the counter grows by one if the value
\* node's outcome was reported a violation and by nothing otherwise, however
\* many results the outcome produced, and outside conformance-only mode at
\* level 0 it was reported a violation exactly when it produced a result; the
\* loop calls execute only with the limit not reached and returns only after
\* the last value node or with the limit reached; and it returns the
\* disjunction of what the evaluated value nodes reported.
C16_GenericBranchCountsValueNodes ==
  /\ [](\A k \in DOMAIN stack :
          (stack[k].kind = "constraint" /\ stack[k].pc = "generic") =>
            /\ Len(stack[k].rets) = stack[k].i - 1
            /\ stack[k].i <= Len(stack[k].valueNodes) + 1
            /\ stack[k].errorFound = Or(stack[k].rets)
            /\ k < Len(stack) =>
                 /\ stack[k + 1].kind = "execute"
                 /\ stack[k + 1].valueNode = stack[k].valueNodes[stack[k].i])
  /\ [][(/\ ~Idle
         /\ Top.kind = "execute"
         /\ stack[Len(stack) - 1].pc = "generic"
         /\ Len(stack') = Len(stack) - 1)
        => LET c == stack'[Len(stack')]
               ret == c.rets[Len(c.rets)]
           IN /\ c.i = stack[Len(stack) - 1].i + 1
              /\ violationsCount' = violationsCount + ToInt(ret)
              /\ ResultCount' > ResultCount => ret
              /\ (~conformanceOnly /\ recordErrorsLevel' = 0)
                   => (ret <=> ResultCount' > ResultCount)
              /\ execCount' = execCount]_vars
  /\ [][(~Idle /\ Top.kind = "constraint" /\ Top.pc = "generic") =>
          /\ violationsCount' = violationsCount
          /\ results' = results
          /\ IF Len(stack') > Len(stack)
             THEN /\ ~MaxErrorsReached
                  /\ execCount' = execCount + 1
             ELSE /\ Top.i > Len(Top.valueNodes) \/ MaxErrorsReached
                  /\ execCount' = execCount
                  /\ stack'[Len(stack')].rets[Len(stack'[Len(stack')].rets)]
                       = Or(Top.rets)]_vars

\* A generic constraint with two value nodes: the first produced two results
\* from one outcome and counted once, the second produced none and counted
\* nothing, and the loop has come to its end.
C16_Witness ==
  /\ ~Idle
  /\ Top.kind = "constraint"
  /\ Top.pc = "generic"
  /\ Top.rets = <<TRUE, FALSE>>
  /\ ResultCount = 2
  /\ violationsCount = 1
  /\ execCount = 2

\* The messages of a result, in the order they were added.
ResultMessages(result) == Objects(results, result, "sh:resultMessage")

\* C17: a result made from a validator's message string carries that message
\* and no other, the templates not being resolved for it.
C17_ExplicitMessageAlone ==
  \A result \in ResultNodes(results) :
    (\E k \in DOMAIN ResultMessages(result) :
       ResultMessages(result)[k] = OString.message)
    => ResultMessages(result) = <<OString.message>>

\* The elements of a batch that are violations.
Violating(obj) == {k \in DOMAIN obj.elements : IsViolation(obj.elements[k])}

\* The caller of the running validator.
Caller == stack[Len(stack) - 1]

\* The value node the caller normalizes the running validator's outcome with.
CallerValueNode == IF Caller.pc = "generic" THEN Top.valueNode ELSE None

\* An outcome normalized as the caller of the running validator will.
Normalize(res, obj) ==
  NormalizeOutcome(res, recordErrorsLevel - 1, obj, Caller.shape, Caller.cidx,
                   Caller.focusNode, CallerValueNode)

\* The elements es normalized one after another, each as an outcome of its
\* own.
RECURSIVE OneByOne(_, _)
OneByOne(res, es) ==
  IF es = <<>> THEN Outcome2(res, FALSE)
  ELSE LET one == Normalize(res, Head(es))
           rest == OneByOne(one.results, Tail(es))
       IN Outcome2(rest.results, one.ret \/ rest.ret)

\* C18: for every batch the running validator may return, normalized as its
\* caller will normalize it: the outcome is that of normalizing the elements
\* one after another as outcomes of their own, with the caller's constraint,
\* focus node and value node; outside conformance-only mode at level 0 the
\* result list gains exactly one result per violating element and nothing
\* else, each with the caller's shape, component, focus node and value node,
\* and a violation is reported exactly when an element is violating, so never
\* for the empty batch.
C18_BatchNormalizedElementwise ==
  (~Idle /\ Top.kind = "execute") =>
    \A obj \in {o \in Outcomes : o.kind = "array"} :
      LET out == Normalize(results, obj)
          new == SubSeq(out.results, Len(results) + 1, Len(out.results))
          added == ResultNodes(out.results) \ ResultNodes(results)
      IN /\ out = OneByOne(results, obj.elements)
         /\ (recordErrorsLevel - 1 = 0 /\ ~conformanceOnly) =>
              /\ SubSeq(out.results, 1, Len(results)) = results
              /\ Cardinality(added) = Cardinality(Violating(obj))
              /\ out.ret = (Violating(obj) # {})
              /\ \A q \in DOMAIN new : new[q].subject \in added
              /\ \A result \in added :
                   /\ Objects(out.results, result, "sh:sourceShape")
                        = <<Caller.shape>>
                   /\ Objects(out.results, result, "sh:sourceConstraintComponent")
                        = <<ComponentOf(Caller.shape, Caller.cidx)>>
                   /\ Objects(out.results, result, "sh:focusNode")
                        = <<Caller.focusNode>>
                   /\ Objects(out.results, result, "sh:value")
                        = IF CallerValueNode = None THEN <<>>
                          ELSE <<CallerValueNode>>

\* A top-level validator outside conformance-only mode has returned a batch
\* of two violating elements for its first value node: two results, one
\* violation reported and counted.
C18_Witness ==
  /\ ~Idle
  /\ ~conformanceOnly
  /\ recordErrorsLevel = 0
  /\ run.wouldRecord
  /\ Top.kind = "constraint"
  /\ Top.pc = "generic"
  /\ Top.rets = <<TRUE>>
  /\ ResultCount = 2
  /\ violationsCount = 1
  /\ execCount = 1

\* The detailed outcomes that supply a path of their own.
WithOwnPath == {o \in Outcomes : o.kind = "object" /\ o.path # None}

\* C19: a result has at most one sh:resultPath and at most one sh:value.  A
\* result made from a detailed outcome that supplies a path (which its message
\* tells) has that path, and that outcome's value, whatever its shape; any
\* other result has a path exactly when its source shape is a property shape,
\* and the path is the shape's.
C19_ResultPathFromShapeOrOutcome ==
  \A result \in ResultNodes(results) :
    LET shape == Objects(results, result, "sh:sourceShape")[1]
        paths == Objects(results, result, "sh:resultPath")
        values == Objects(results, result, "sh:value")
        own == {o \in WithOwnPath : ResultMessages(result) = <<o.message>>}
    IN /\ Len(paths) <= 1
       /\ Len(values) <= 1
       /\ IF own # {}
          THEN \A o \in own : paths = <<o.path>> /\ values = <<o.value>>
          ELSE /\ paths # <<>> <=> IsPropertyShape(shape)
               /\ paths # <<>> => paths = <<shapesGraph[shape].path>>

\* Results of both kinds side by side: one of a node shape with the path its
\* outcome supplied, and one of a property shape with the shape's path.
C19_Witness ==
  /\ \E result \in ResultNodes(results) :
       /\ ~IsPropertyShape(Objects(results, result, "sh:sourceShape")[1])
       /\ Objects(results, result, "sh:resultPath") # <<>>
  /\ \E result \in ResultNodes(results) :
       LET shape == Objects(results, result, "sh:sourceShape")[1]
       IN /\ IsPropertyShape(shape)
          /\ Objects(results, result, "sh:resultPath")
               = <<shapesGraph[shape].path>>

\* C20, for an engine whose configuration is never changed
\* (SpecFixedConfiguration): no step decreases violationsCount; once the
\* counter has reached the limit it stays reached, no step executes a
\* validator, every validateAll call returns true at once, and between calls
\* the result list stays as the run that reached the limit left it; and a
\* getReport call made with the limit reached returns the report of that
\* result list.
C20_CounterMonotoneLimitLatches ==
  /\ [][violationsCount' >= violationsCount]_vars
  /\ [][MaxErrorsReached =>
          /\ MaxErrorsReached'
          /\ execCount' = execCount
          /\ runs' # runs => (api'.status = "returned" /\ api'.value = TRUE)
          /\ Idle => results' = results]_vars
  /\ []((Idle /\ MaxErrorsReached /\ api.op = "getReport") =>
          /\ api.status = "returned"
          /\ api.report = ValidationReport(results))

====
